---- MODULE Spec2Model ----
(***************************************************************************)
(* Model of "Case Study - Basic Queued Pipeline with Validation.ipynb":    *)
(* a producer thread fills a Queue with router readings, the queue is      *)
(* scattered to a dask.distributed worker pool, three functions            *)
(* (test_schema, add_machine_info, add_reading) are mapped over it as a    *)
(* chain of per-item tasks, the results are gathered into the queue        *)
(* `final`, and a loop prints a fixed number of them.                      *)
(*                                                                         *)
(* Client.scatter / Client.map / Client.gather are called with Queue       *)
(* objects.  In the distributed releases that accept queues each call      *)
(* starts a daemon thread and returns a new Queue:                         *)
(*   scatter: L = [q.get()], then a get per further item while the queue   *)
(*            is not empty; scatter(L), which sends the data to the        *)
(*            workers and waits; then one put per future, in order;        *)
(*   map:     a get of one future from the input queue; submit(func,       *)
(*            future); a put of the new future on the output queue;        *)
(*   gather:  L = [q.get()], then a get per further item while the queue   *)
(*            is not empty; results = gather(L) (errors='raise'); then one *)
(*            put per result, in the order of L.                           *)
(* A submitted task runs once the future it depends on has finished; when  *)
(* that future erred, the dependent future errs without running.  Every    *)
(* reading enqueued gets futures of its own.                               *)
(*                                                                         *)
(* queue_example.py (generate_example, generate_machine_db) is not part of *)
(* the sources at hand; the readings and the machine directory follow the  *)
(* description of the data model.  datetime.now() is the naive local time  *)
(* of the worker: it may be set back between two readings (end of summer   *)
(* time, an adjustment of the clock).                                      *)
(***************************************************************************)
EXTENDS Integers, Sequences, FiniteSets, TLC

\* ------------------------------------------------------------------ bounds
\* Readings the producer enqueues before the model stops it (the source's
\* producer loops forever).
MaxItems == 2
\* Results the consumption loop prints (the source prints 40).
SampleSize == 1
\* Largest reading of the wall clock.
MaxTime == 1
\* Readings the producer still enqueues in the runs that start when the
\* first result is ready for the loop.
MaxLate == 2

\* ------------------------------------------------------------------ values
\* A Python value of a schema field: its type and its magnitude.
Float(n) == [ty |-> "float", v |-> n]
Int_(n) == [ty |-> "int", v |-> n]
Bool_(n) == [ty |-> "bool", v |-> n]
Str_ == [ty |-> "str", v |-> 0]

\* dict item assignment d[k] = x
SetItem(d, k, x) == [f \in DOMAIN d \cup {k} |-> IF f = k THEN x ELSE d[f]]

\* isinstance(val, float) / isinstance(val, int); bool is a subclass of int
IsInstance(val, ty) ==
    IF ty = "float" THEN val.ty = "float"
    ELSE IF ty = "int" THEN val.ty \in {"int", "bool"}
    ELSE FALSE

\* voluptuous Range(min=lo, max=hi): both ends included
Range(val, lo, hi) == val.v >= lo /\ val.v <= hi

\* voluptuous All(type, Range(min=lo, max=hi)): every validator in turn
All(val, ty, lo, hi) == IsInstance(val, ty) /\ Range(val, lo, hi)

\* The schema's entries: Required(field): All(type, Range(min, max))
schema ==
    [AmbientTemp |-> [ty |-> "float", min |-> 3, max |-> 40],
     Fan |-> [ty |-> "int", min |-> 100, max |-> 2000],
     CpuTemp |-> [ty |-> "float", min |-> 5, max |-> 50]]

\* A mutant of SchemaCall: the range's upper end excluded.
SchemaCallExclusiveMax(reading) ==
    IF \A f \in DOMAIN schema :
           /\ f \in DOMAIN reading
           /\ IsInstance(reading[f], schema[f].ty)
           /\ reading[f].v >= schema[f].min /\ reading[f].v < schema[f].max
    THEN "ok" ELSE "MultipleInvalid"

\* A mutant of SchemaCall: extra=PREVENT_EXTRA, a key outside the schema is
\* an error.
SchemaCallPreventExtra(reading) ==
    IF /\ DOMAIN reading \subseteq DOMAIN schema
       /\ \A f \in DOMAIN schema :
              /\ f \in DOMAIN reading
              /\ All(reading[f], schema[f].ty, schema[f].min, schema[f].max)
    THEN "ok" ELSE "MultipleInvalid"

\* schema(reading): "ok", or the exception it raises.  extra=ALLOW_EXTRA:
\* keys outside the schema are not looked at.
SchemaCall(reading) ==
    IF \A f \in DOMAIN schema :
           /\ f \in DOMAIN reading
           /\ All(reading[f], schema[f].ty, schema[f].min, schema[f].max)
    THEN "ok" ELSE "MultipleInvalid"

\* The outcome of a task function: the value it returns, or raised = TRUE
\* with the reading as the exception left it.
Returned(reading) == [raised |-> FALSE, value |-> reading]
Raised(reading) == [raised |-> TRUE, value |-> reading]

\* A mutant of test_schema: the MultipleInvalid is not caught.
test_schema_uncaught(reading) ==
    IF SchemaCall(reading) = "ok"
    THEN Returned(SetItem(reading, "warning", FALSE))
    ELSE Raised(reading)

\* A mutant of test_schema: the warning replaces the reading.
test_schema_fresh_dict(reading) ==
    IF SchemaCall(reading) = "ok"
    THEN Returned(SetItem(reading, "warning", FALSE))
    ELSE Returned([f \in {"warning"} |-> TRUE])

test_schema(reading) ==
    IF SchemaCall(reading) = "ok"
    THEN Returned(SetItem(reading, "warning", FALSE))
    ELSE Returned(SetItem(reading, "warning", TRUE))

\* The machine directory, generate_machine_db(): machine id -> brand.
generate_machine_db == [m1 |-> "Cisco", m2 |-> "Juniper"]

\* A mutant of add_machine_info: mdb.get(id, default) instead of mdb[id].
add_machine_info_default(reading) ==
    LET mdb == generate_machine_db IN
    IF "MachineId" \in DOMAIN reading /\ reading["MachineId"] \in DOMAIN mdb
    THEN Returned(SetItem(reading, "brand", mdb[reading["MachineId"]]))
    ELSE Returned(SetItem(reading, "brand", "unknown"))

\* A mutant of add_machine_info: the brand is stored under MachineId.
add_machine_info_overwrites_id(reading) ==
    LET mdb == generate_machine_db IN
    IF "MachineId" \in DOMAIN reading /\ reading["MachineId"] \in DOMAIN mdb
    THEN Returned(SetItem(SetItem(reading, "brand", mdb[reading["MachineId"]]),
                          "MachineId", mdb[reading["MachineId"]]))
    ELSE Raised(reading)

\* reading['MachineId'] and mdb[...] each raise KeyError on a missing key.
add_machine_info(reading) ==
    LET mdb == generate_machine_db IN
    IF "MachineId" \in DOMAIN reading /\ reading["MachineId"] \in DOMAIN mdb
    THEN Returned(SetItem(reading, "brand", mdb[reading["MachineId"]]))
    ELSE Raised(reading)

\* A mutant of insert: a row that differs from a stored row in nothing but
\* processed_at is not stored again.
insert_ignore(tbl, row) ==
    IF \E k \in 1..Len(tbl) :
           /\ DOMAIN tbl[k] = DOMAIN row
           /\ \A f \in DOMAIN row \ {"processed_at"} : tbl[k][f] = row[f]
    THEN tbl
    ELSE Append(tbl, row)

\* Table.insert(row): one more row, whatever the table already holds.
insert(tbl, row) == Append(tbl, row)

\* ---------------------------------------------------------------- readings
\* Readings of the scenarios: A is within every range, B has AmbientTemp
\* above its maximum, U names a machine the directory does not hold and
\* carries a field the schema does not name.
ReadingA ==
    [AmbientTemp |-> Float(25), Fan |-> Int_(1500), CpuTemp |-> Float(40),
     MachineId |-> "m1"]
ReadingB ==
    [AmbientTemp |-> Float(50), Fan |-> Int_(1500), CpuTemp |-> Float(40),
     MachineId |-> "m1"]
ReadingU ==
    [AmbientTemp |-> Float(25), Fan |-> Int_(1500), CpuTemp |-> Float(40),
     MachineId |-> "m9", Location |-> "rack7"]

\* generate_example(): the readings the generator may return.
generate_example == {ReadingA, ReadingB, ReadingU}

\* ------------------------------------------------------------------- state
Stages == {"schema", "info", "insert"}

VARIABLES
    queue,        \* queue: ids of the readings enqueued and not yet scattered
    produced,     \* readings the producer has enqueued
    orig,         \* orig[i]: reading i as the producer enqueued it
    reading,      \* reading[i]: the dict of reading i as the tasks left it
    remote_q,     \* futures of the scattered readings
    schema_q,     \* futures of the test_schema tasks
    info_q,       \* futures of the add_machine_info tasks
    insert_q,     \* futures of the add_reading tasks
    task,         \* task[i][s]: state of reading i's task of stage s
    L,            \* the batch the gather thread is waiting for
    gather_alive, \* the gather thread has not died of an exception
    final,        \* final: gathered results not yet taken by the loop
    count,        \* count of the consumption loop
    printed,      \* the results the consumption loop has printed
    qsizes,       \* the queue sizes the consumption loop has printed
    item,         \* item of the loop: the result taken and not yet counted, 0 for none
    loop_pc,      \* where the loop is: "get", "print", "qsize" or "count"
    map_item,     \* map_item[s]: the future the map thread of stage s holds, 0 for none
    map_pc,       \* map_pc[s]: where that thread is: "get", "submit" or "put"
    table,        \* rows of the readings table
    table0,       \* rows the table held at the start
    budget,       \* readings the producer still enqueues before the model stops it
    invoked_at,   \* invoked_at[i]: clock when add_reading(i) was invoked
    client,       \* the connection to the scheduler: Client('127.0.0.1:8786')
    scatter_L,    \* L of the scatter thread: readings taken, futures not yet put
    scatter_pc,   \* where the scatter thread is: "get", "scatter" or "put"
    returned,     \* the readings whose add_reading has returned, in that order
    gather_pc,    \* where the gather thread is: "get", "gather" or "put"
    results       \* results of the gather thread not yet put on final

vars == <<queue, produced, orig, reading, remote_q, schema_q, info_q, insert_q,
          task, L, gather_alive, final, count, printed, table, table0, budget,
          invoked_at, client, scatter_L, scatter_pc, returned, gather_pc,
          results, qsizes, item, loop_pc, map_item, map_pc>>

\* A row somebody else wrote before the notebook started.
OldRow ==
    [AmbientTemp |-> Float(20), Fan |-> Int_(900), CpuTemp |-> Float(30),
     MachineId |-> "m0", warning |-> FALSE, brand |-> "Cisco",
     processed_at |-> 0]

\* output_db.db outlives the notebook: the readings table is empty or
\* already holds a row when the notebook starts.
InitialTables == {<<>>, <<OldRow>>}

Init ==
    /\ queue = <<>>
    /\ produced = 0
    /\ orig = <<>>
    /\ reading = <<>>
    /\ remote_q = <<>>
    /\ schema_q = <<>>
    /\ info_q = <<>>
    /\ insert_q = <<>>
    /\ task = <<>>
    /\ L = <<>>
    /\ gather_alive = TRUE
    /\ final = <<>>
    /\ count = 0
    /\ printed = <<>>
    /\ table \in InitialTables
    /\ table0 = Len(table)
    /\ budget = MaxItems
    /\ invoked_at = <<>>
    /\ client = "connecting"
    /\ scatter_L = <<>>
    /\ scatter_pc = "get"
    /\ returned = <<>>
    /\ gather_pc = "get"
    /\ results = <<>>
    /\ qsizes = <<>>
    /\ item = 0
    /\ loop_pc = "get"
    /\ map_item = [s \in Stages |-> 0]
    /\ map_pc = [s \in Stages |-> "get"]

\* ----------------------------------------------------------------- startup
\* The state Init describes is the one after load_thread.start(): the
\* notebook starts the producer thread before it connects to the scheduler.
\* client = Client('127.0.0.1:8786') succeeds; the cells that follow start
\* the scatter, map and gather threads.
Connect ==
    /\ client = "connecting"
    /\ client' = "connected"
    /\ UNCHANGED <<gather_pc, results, qsizes, item, loop_pc, map_item, map_pc, queue, produced, orig, reading, remote_q, schema_q, info_q,
                   insert_q, task, L, gather_alive, final, count, printed,
                   table, table0, budget, invoked_at, scatter_L, scatter_pc,
                   returned>>

\* Client('127.0.0.1:8786') raises: no scheduler answers.  The cells that
\* need client cannot run.
ConnectFails ==
    /\ client = "connecting"
    /\ client' = "failed"
    /\ UNCHANGED <<gather_pc, results, qsizes, item, loop_pc, map_item, map_pc, queue, produced, orig, reading, remote_q, schema_q, info_q,
                   insert_q, task, L, gather_alive, final, count, printed,
                   table, table0, budget, invoked_at, scatter_L, scatter_pc,
                   returned>>

\* ---------------------------------------------------------------- producer
\* load_data: input_q.put(generate_example()); sleep(1)
\* A mutant of load_data: Queue(maxsize=1), put blocks while the queue is
\* full.
load_data_bounded_queue ==
    /\ budget > 0
    /\ budget' = budget - 1
    /\ Len(queue) < 1
    /\ \E r \in generate_example :
           /\ orig' = Append(orig, r)
           /\ reading' = Append(reading, r)
    /\ produced' = produced + 1
    /\ queue' = Append(queue, produced + 1)
    /\ task' = Append(task, [s \in Stages |-> "none"])
    /\ invoked_at' = Append(invoked_at, 0)
    /\ UNCHANGED <<gather_pc, results, qsizes, item, loop_pc, map_item, map_pc, remote_q, schema_q, info_q, insert_q, L, gather_alive,
                   final, count, printed, table, table0, client, scatter_L, scatter_pc, returned>>

\* load_data: input_q.put(generate_example()) on the unbounded Queue(), then
\* sleep(1), for ever.  budget caps the number of readings of a run.
load_data ==
    /\ budget > 0
    /\ budget' = budget - 1
    /\ \E r \in generate_example :
           /\ orig' = Append(orig, r)
           /\ reading' = Append(reading, r)
    /\ produced' = produced + 1
    /\ queue' = Append(queue, produced + 1)
    /\ task' = Append(task, [s \in Stages |-> "none"])
    /\ invoked_at' = Append(invoked_at, 0)
    /\ UNCHANGED <<gather_pc, results, qsizes, item, loop_pc, map_item, map_pc, remote_q, schema_q, info_q, insert_q, L, gather_alive,
                   final, count, printed, table, table0, client, scatter_L, scatter_pc, returned>>

\* ------------------------------------------------------------ distribution
\* remote_q = client.scatter(queue) starts the scatter thread.
\* L = [q.get()], then L.append(q.get()) while the queue is not empty: the
\* thread takes one reading off the queue.
ScatterGet ==
    /\ client = "connected"
    /\ scatter_pc = "get"
    /\ queue # <<>>
    /\ scatter_L' = Append(scatter_L, Head(queue))
    /\ queue' = Tail(queue)
    /\ UNCHANGED <<gather_pc, results, qsizes, item, loop_pc, map_item, map_pc, produced, orig, reading, schema_q, info_q, insert_q, task,
                   L, gather_alive, final, count, printed, table, table0, budget,
                   invoked_at, client, returned, remote_q, scatter_pc>>

\* The thread finds the queue empty and calls self.scatter(L): the readings
\* it took are sent to the workers.
ScatterSend ==
    /\ client = "connected"
    /\ scatter_pc = "get"
    /\ scatter_L # <<>>
    /\ queue = <<>>
    /\ scatter_pc' = "scatter"
    /\ UNCHANGED <<gather_pc, results, qsizes, item, loop_pc, map_item, map_pc, produced, orig, reading, schema_q, info_q, insert_q, task,
                   L, gather_alive, final, count, printed, table, table0, budget,
                   invoked_at, client, returned, queue, remote_q, scatter_L>>

\* self.scatter(L) returns the futures of the readings.
ScatterReturn ==
    /\ scatter_pc = "scatter"
    /\ scatter_pc' = "put"
    /\ UNCHANGED <<gather_pc, results, qsizes, item, loop_pc, map_item, map_pc, produced, orig, reading, schema_q, info_q, insert_q, task,
                   L, gather_alive, final, count, printed, table, table0, budget,
                   invoked_at, client, returned, queue, remote_q, scatter_L>>

\* A mutant of ScatterPut: every future is put on remote_q twice.
ScatterPutTwice ==
    /\ scatter_pc = "put"
    /\ remote_q' = remote_q \o <<Head(scatter_L), Head(scatter_L)>>
    /\ scatter_L' = Tail(scatter_L)
    /\ scatter_pc' = IF Tail(scatter_L) = <<>> THEN "get" ELSE "put"
    /\ UNCHANGED <<gather_pc, results, qsizes, item, loop_pc, map_item, map_pc, produced, orig, reading, schema_q, info_q, insert_q, task,
                   L, gather_alive, final, count, printed, table, table0, budget,
                   invoked_at, client, returned, queue>>

\* for future in futures: qout.put(future); after the last one the thread
\* goes back to the queue.
ScatterPut ==
    /\ scatter_pc = "put"
    /\ remote_q' = Append(remote_q, Head(scatter_L))
    /\ scatter_L' = Tail(scatter_L)
    /\ scatter_pc' = IF Tail(scatter_L) = <<>> THEN "get" ELSE "put"
    /\ UNCHANGED <<gather_pc, results, qsizes, item, loop_pc, map_item, map_pc, produced, orig, reading, schema_q, info_q, insert_q, task,
                   L, gather_alive, final, count, printed, table, table0, budget,
                   invoked_at, client, returned, queue>>

Submit(i, s) == [task EXCEPT ![i][s] = "waiting"]

\* A map thread: while True: args = [q.get() for q in qs_in];
\* f = self.submit(func, *args); q_out.put(f).
\* The get: the thread of stage s takes one future off its input queue.
MapGet(s) ==
    /\ client = "connected"
    /\ map_pc[s] = "get"
    /\ LET q == IF s = "schema" THEN remote_q
                ELSE IF s = "info" THEN schema_q ELSE info_q IN
           /\ q # <<>>
           /\ map_item' = [map_item EXCEPT ![s] = Head(q)]
    /\ remote_q' = IF s = "schema" THEN Tail(remote_q) ELSE remote_q
    /\ schema_q' = IF s = "info" THEN Tail(schema_q) ELSE schema_q
    /\ info_q' = IF s = "insert" THEN Tail(info_q) ELSE info_q
    /\ map_pc' = [map_pc EXCEPT ![s] = "submit"]
    /\ UNCHANGED <<queue, produced, orig, reading, L, gather_alive, final,
                   count, printed, table, table0, budget, invoked_at, client,
                   scatter_L, scatter_pc, returned, gather_pc, results,
                   qsizes, item, loop_pc, insert_q, task>>

\* The submit: the task of stage s on the future taken is handed to the
\* scheduler.
MapSubmit(s) ==
    /\ map_pc[s] = "submit"
    /\ task' = Submit(map_item[s], s)
    /\ map_pc' = [map_pc EXCEPT ![s] = "put"]
    /\ UNCHANGED <<queue, produced, orig, reading, L, gather_alive, final,
                   count, printed, table, table0, budget, invoked_at, client,
                   scatter_L, scatter_pc, returned, gather_pc, results,
                   qsizes, item, loop_pc, remote_q, schema_q, info_q, insert_q, map_item>>

\* The put: the new future goes on the output queue of stage s.
MapPut(s) ==
    /\ map_pc[s] = "put"
    /\ schema_q' = IF s = "schema" THEN Append(schema_q, map_item[s]) ELSE schema_q
    /\ info_q' = IF s = "info" THEN Append(info_q, map_item[s]) ELSE info_q
    /\ insert_q' = IF s = "insert" THEN Append(insert_q, map_item[s]) ELSE insert_q
    /\ map_item' = [map_item EXCEPT ![s] = 0]
    /\ map_pc' = [map_pc EXCEPT ![s] = "get"]
    /\ UNCHANGED <<queue, produced, orig, reading, L, gather_alive, final,
                   count, printed, table, table0, budget, invoked_at, client,
                   scatter_L, scatter_pc, returned, gather_pc, results,
                   qsizes, item, loop_pc, remote_q, task>>

\* schema_q = client.map(test_schema, remote_q)
map_test_schema == MapGet("schema") \/ MapSubmit("schema") \/ MapPut("schema")

\* info_q = client.map(add_machine_info, schema_q)
map_add_machine_info == MapGet("info") \/ MapSubmit("info") \/ MapPut("info")

\* insert_q = client.map(add_reading, info_q)
map_add_reading == MapGet("insert") \/ MapSubmit("insert") \/ MapPut("insert")

\* The stage whose future is the argument of stage s.
Upstream(s) == IF s = "insert" THEN {"info"} ELSE IF s = "info" THEN {"schema"} ELSE {}

\* The status of the future of stage s of reading i: a future whose
\* argument erred errs without running.
RECURSIVE FutureStatus(_, _)
FutureStatus(i, s) ==
    IF task[i][s] = "none" THEN "none"
    ELSE IF \E u \in Upstream(s) : FutureStatus(i, u) = "error" THEN "error"
    ELSE IF task[i][s] \in {"waiting", "running", "stamped", "inserted"}
         THEN "pending"
    ELSE task[i][s]

\* A mutant of Ready: a task runs as soon as it is submitted.
ReadyOnSubmit(i, s) == task[i][s] = "waiting"

\* A mutant of Ready: a task runs once the future it takes as its argument
\* is done, erred or not.
ReadyWhenUpstreamDone(i, s) ==
    /\ task[i][s] = "waiting"
    /\ \A u \in Upstream(s) : task[i][u] \in {"finished", "error"}

\* A worker may run task s of reading i: the task is submitted and the
\* future it takes as its argument has finished.
Ready(i, s) ==
    /\ task[i][s] = "waiting"
    /\ \A u \in Upstream(s) : FutureStatus(i, u) = "finished"

Outcome(o) == IF o.raised THEN "error" ELSE "finished"


\* ----------------------------------------------------------------- workers
\* A worker runs test_schema on reading i.
RunValidate(i) ==
    /\ Ready(i, "schema")
    /\ LET o == test_schema(reading[i]) IN
           /\ reading' = [reading EXCEPT ![i] = o.value]
           /\ task' = [task EXCEPT ![i]["schema"] = Outcome(o)]
    /\ UNCHANGED <<gather_pc, results, qsizes, item, loop_pc, map_item, map_pc, queue, produced, orig, remote_q, schema_q, info_q, insert_q,
                   L, gather_alive, final, count, printed, table, table0, budget,
                   invoked_at, client, scatter_L, scatter_pc, returned>>

\* A worker runs add_machine_info on the result of test_schema.
RunEnrich(i) ==
    /\ Ready(i, "info")
    /\ LET o == add_machine_info(reading[i]) IN
           /\ reading' = [reading EXCEPT ![i] = o.value]
           /\ task' = [task EXCEPT ![i]["info"] = Outcome(o)]
    /\ UNCHANGED <<gather_pc, results, qsizes, item, loop_pc, map_item, map_pc, queue, produced, orig, remote_q, schema_q, info_q, insert_q,
                   L, gather_alive, final, count, printed, table, table0, budget,
                   invoked_at, client, scatter_L, scatter_pc, returned>>

\* A worker invokes add_reading on the result of add_machine_info, the
\* wall clock reading t at that moment, and connects to the database:
\* db = dataset.connect('sqlite:///output_db.db'); table = db['readings']
PersistStart(i) ==
    /\ Ready(i, "insert")
    /\ \E t \in 0..MaxTime :
           invoked_at' = [invoked_at EXCEPT ![i] = t]
    /\ task' = [task EXCEPT ![i]["insert"] = "running"]
    /\ UNCHANGED <<gather_pc, results, qsizes, item, loop_pc, map_item, map_pc, queue, produced, orig, remote_q, schema_q, info_q, insert_q,
                   L, gather_alive, final, count, printed, table0, client,
                   scatter_L, scatter_pc, reading, table, returned, budget>>

\* reading['processed_at'] = datetime.now(): the naive local time, whatever
\* the clock reads now; it may read less than it did at the invocation.
PersistStamp(i) ==
    /\ task[i]["insert"] = "running"
    /\ \E t \in 0..MaxTime :
           reading' = [reading EXCEPT ![i] = SetItem(reading[i], "processed_at", t)]
    /\ task' = [task EXCEPT ![i]["insert"] = "stamped"]
    /\ UNCHANGED <<gather_pc, results, qsizes, item, loop_pc, map_item, map_pc, queue, produced, orig, remote_q, schema_q, info_q, insert_q,
                   L, gather_alive, final, count, printed, table0, client,
                   scatter_L, scatter_pc, table, invoked_at, returned, budget>>

\* table.insert(reading): the write, which may have waited for the writes
\* of other add_reading calls.
PersistInsert(i) ==
    /\ task[i]["insert"] = "stamped"
    /\ table' = insert(table, reading[i])
    /\ task' = [task EXCEPT ![i]["insert"] = "inserted"]
    /\ UNCHANGED <<gather_pc, results, qsizes, item, loop_pc, map_item, map_pc, queue, produced, orig, remote_q, schema_q, info_q, insert_q,
                   L, gather_alive, final, count, printed, table0, client,
                   scatter_L, scatter_pc, reading, budget, invoked_at, returned>>

\* return reading
PersistReturn(i) ==
    /\ task[i]["insert"] = "inserted"
    /\ task' = [task EXCEPT ![i]["insert"] = "finished"]
    /\ returned' = Append(returned, i)
    /\ UNCHANGED <<gather_pc, results, qsizes, item, loop_pc, map_item, map_pc, queue, produced, orig, remote_q, schema_q, info_q, insert_q,
                   L, gather_alive, final, count, printed, table0, client,
                   scatter_L, scatter_pc, reading, table, budget, invoked_at>>

\* add_reading raises and no row is written: dataset.connect fails, before
\* the stamp, or table.insert fails, after it; the reading keeps the
\* processed_at it was given.
PersistError(i) ==
    /\ task[i]["insert"] \in {"running", "stamped"}
    /\ task' = [task EXCEPT ![i]["insert"] = "error"]
    /\ UNCHANGED <<gather_pc, results, qsizes, item, loop_pc, map_item, map_pc, queue, produced, orig, remote_q, schema_q, info_q, insert_q,
                   L, gather_alive, final, count, printed, table0, client,
                   scatter_L, scatter_pc, reading, table, budget, invoked_at, returned>>

\* ------------------------------------------------------------------ gather
Range_(q) == {q[k] : k \in 1..Len(q)}

\* final = client.gather(insert_q) starts the gather thread.
\* L = [qin.get()], then L.append(qin.get()) while the queue is not empty:
\* the thread takes one future off insert_q.
GatherGet ==
    /\ client = "connected"
    /\ gather_alive
    /\ gather_pc = "get"
    /\ insert_q # <<>>
    /\ L' = Append(L, Head(insert_q))
    /\ insert_q' = Tail(insert_q)
    /\ UNCHANGED <<qsizes, item, loop_pc, map_item, map_pc, queue, produced, orig, reading, remote_q, schema_q, info_q,
                   task, count, printed, table, table0, budget, invoked_at,
                   client, scatter_L, scatter_pc, returned, gather_alive, final, gather_pc, results>>

\* The thread finds the queue empty and calls self.gather(L).
GatherCall ==
    /\ gather_alive
    /\ gather_pc = "get"
    /\ L # <<>>
    /\ insert_q = <<>>
    /\ gather_pc' = "gather"
    /\ UNCHANGED <<qsizes, item, loop_pc, map_item, map_pc, queue, produced, orig, reading, remote_q, schema_q, info_q,
                   task, count, printed, table, table0, budget, invoked_at,
                   client, scatter_L, scatter_pc, returned, insert_q, L, gather_alive, final, results>>

\* A mutant of Gathered: a result is returned as soon as its future finishes.
GatheredAsCompleted(batch) ==
    IF \E k \in 1..Len(batch) : FutureStatus(batch[k], "insert") = "finished"
    THEN LET k == CHOOSE k \in 1..Len(batch) :
                      FutureStatus(batch[k], "insert") = "finished" IN
         [ready |-> TRUE, results |-> <<batch[k]>>,
          rest |-> SubSeq(batch, 1, k - 1) \o SubSeq(batch, k + 1, Len(batch))]
    ELSE [ready |-> FALSE, results |-> <<>>, rest |-> batch]

\* A mutant of Gathered: only the first result of a batch is returned.
GatheredHeadOnly(batch) ==
    IF \A k \in 1..Len(batch) : FutureStatus(batch[k], "insert") = "finished"
    THEN [ready |-> TRUE, results |-> <<Head(batch)>>, rest |-> <<>>]
    ELSE [ready |-> FALSE, results |-> <<>>, rest |-> batch]

\* A mutant of Gathered: the batch is passed on without waiting for its
\* futures.
GatheredWithoutWaiting(batch) ==
    [ready |-> TRUE, results |-> batch, rest |-> <<>>]

\* results = self.gather(L): once every future of the batch has finished,
\* the results of the whole batch, in the order of the batch.
Gathered(batch) ==
    IF \A k \in 1..Len(batch) : FutureStatus(batch[k], "insert") = "finished"
    THEN [ready |-> TRUE, results |-> batch, rest |-> <<>>]
    ELSE [ready |-> FALSE, results |-> <<>>, rest |-> batch]

\* self.gather(L) returns the results.
GatherResults ==
    /\ gather_alive
    /\ gather_pc = "gather"
    /\ Gathered(L).ready
    /\ results' = Gathered(L).results
    /\ L' = Gathered(L).rest
    /\ gather_pc' = "put"
    /\ UNCHANGED <<qsizes, item, loop_pc, map_item, map_pc, queue, produced, orig, reading, remote_q, schema_q, info_q,
                   task, count, printed, table, table0, budget, invoked_at,
                   client, scatter_L, scatter_pc, returned, insert_q, gather_alive, final>>

\* for item in results: qout.put(item); after the last one the thread goes
\* back to insert_q.
GatherPut ==
    /\ gather_alive
    /\ gather_pc = "put"
    /\ final' = Append(final, Head(results))
    /\ results' = Tail(results)
    /\ gather_pc' = IF Tail(results) = <<>> THEN "get" ELSE "put"
    /\ UNCHANGED <<qsizes, item, loop_pc, map_item, map_pc, queue, produced, orig, reading, remote_q, schema_q, info_q,
                   task, count, printed, table, table0, budget, invoked_at,
                   client, scatter_L, scatter_pc, returned, insert_q, L, gather_alive>>

\* self.gather(L) with errors='raise' re-raises the exception of an erred
\* future of the batch.
GatherErred(batch) ==
    \E k \in 1..Len(batch) : FutureStatus(batch[k], "insert") = "error"

\* The exception ends the gather thread; the batch is lost with it.
GatherRaise ==
    /\ gather_alive
    /\ gather_pc = "gather"
    /\ GatherErred(L)
    /\ gather_alive' = FALSE
    /\ L' = <<>>
    /\ UNCHANGED <<qsizes, item, loop_pc, map_item, map_pc, queue, produced, orig, reading, remote_q, schema_q, info_q,
                   task, count, printed, table, table0, budget, invoked_at,
                   client, scatter_L, scatter_pc, returned, insert_q, final, gather_pc, results>>

\* -------------------------------------------------------- consumption loop
\* A mutant of ConsumeGet: the loop takes a reading off queue with every
\* result it takes.
ConsumeGetFromQueue ==
    /\ loop_pc = "get"
    /\ count < SampleSize
    /\ final # <<>>
    /\ queue # <<>>
    /\ item' = Head(final)
    /\ final' = Tail(final)
    /\ queue' = Tail(queue)
    /\ loop_pc' = "print"
    /\ UNCHANGED <<produced, orig, reading, remote_q, schema_q, info_q,
                   insert_q, task, L, gather_alive, table, table0, budget,
                   invoked_at, client, scatter_L, scatter_pc, returned,
                   gather_pc, results, map_item, map_pc, count, printed, qsizes>>

\* A mutant of ConsumeGet: while True instead of while count < 40.
ConsumeGetForever ==
    /\ loop_pc = "get"
    /\ final # <<>>
    /\ item' = Head(final)
    /\ final' = Tail(final)
    /\ loop_pc' = "print"
    /\ UNCHANGED <<produced, orig, reading, remote_q, schema_q, info_q,
                   insert_q, task, L, gather_alive, table, table0, budget,
                   invoked_at, client, scatter_L, scatter_pc, returned,
                   gather_pc, results, map_item, map_pc, queue, count, printed, qsizes>>

\* while count < 40: item = final.get()
ConsumeGet ==
    /\ loop_pc = "get"
    /\ count < SampleSize
    /\ final # <<>>
    /\ item' = Head(final)
    /\ final' = Tail(final)
    /\ loop_pc' = "print"
    /\ UNCHANGED <<produced, orig, reading, remote_q, schema_q, info_q,
                   insert_q, task, L, gather_alive, table, table0, budget,
                   invoked_at, client, scatter_L, scatter_pc, returned,
                   gather_pc, results, map_item, map_pc, queue, count, printed, qsizes>>

\* print(item)
ConsumePrint ==
    /\ loop_pc = "print"
    /\ printed' = Append(printed, item)
    /\ loop_pc' = "qsize"
    /\ UNCHANGED <<produced, orig, reading, remote_q, schema_q, info_q,
                   insert_q, task, L, gather_alive, table, table0, budget,
                   invoked_at, client, scatter_L, scatter_pc, returned,
                   gather_pc, results, map_item, map_pc, queue, final, count, qsizes, item>>

\* print('Queue size: ', queue.qsize())
ConsumeQsize ==
    /\ loop_pc = "qsize"
    /\ qsizes' = Append(qsizes, Len(queue))
    /\ loop_pc' = "count"
    /\ UNCHANGED <<produced, orig, reading, remote_q, schema_q, info_q,
                   insert_q, task, L, gather_alive, table, table0, budget,
                   invoked_at, client, scatter_L, scatter_pc, returned,
                   gather_pc, results, map_item, map_pc, queue, final, count, printed, item>>

\* count += 1
ConsumeCount ==
    /\ loop_pc = "count"
    /\ count' = count + 1
    /\ item' = 0
    /\ loop_pc' = "get"
    /\ UNCHANGED <<produced, orig, reading, remote_q, schema_q, info_q,
                   insert_q, task, L, gather_alive, table, table0, budget,
                   invoked_at, client, scatter_L, scatter_pc, returned,
                   gather_pc, results, map_item, map_pc, queue, final, printed, qsizes>>

Next ==
    \/ Connect
    \/ ConnectFails
    \/ load_data
    \/ ScatterGet
    \/ ScatterSend
    \/ ScatterReturn
    \/ ScatterPut
    \/ map_test_schema
    \/ map_add_machine_info
    \/ map_add_reading
    \/ \E i \in 1..produced : RunValidate(i)
    \/ \E i \in 1..produced : RunEnrich(i)
    \/ \E i \in 1..produced : PersistStart(i)
    \/ \E i \in 1..produced : PersistStamp(i)
    \/ \E i \in 1..produced : PersistInsert(i)
    \/ \E i \in 1..produced : PersistReturn(i)
    \/ \E i \in 1..produced : PersistError(i)
    \/ GatherGet
    \/ GatherCall
    \/ GatherResults
    \/ GatherPut
    \/ GatherRaise
    \/ ConsumeGet
    \/ ConsumePrint
    \/ ConsumeQsize
    \/ ConsumeCount

Spec == Init /\ [][Next]_vars

\* Every thread of the notebook keeps running and the worker pool runs
\* every task that is ready: the producer thread, the scatter, map and
\* gather threads, the workers and the consumption loop each take their
\* next step when it stays possible, and the attempt to connect ends one
\* way or the other.  Nothing obliges the database to fail.
Fairness ==
    /\ WF_vars(Connect \/ ConnectFails)
    /\ WF_vars(load_data)
    /\ WF_vars(ScatterGet \/ ScatterSend \/ ScatterReturn \/ ScatterPut)
    /\ WF_vars(map_test_schema)
    /\ WF_vars(map_add_machine_info)
    /\ WF_vars(map_add_reading)
    /\ WF_vars(\E i \in 1..produced : RunValidate(i))
    /\ WF_vars(\E i \in 1..produced : RunEnrich(i))
    /\ WF_vars(\E i \in 1..produced : PersistStart(i))
    /\ WF_vars(\E i \in 1..produced :
                   \/ PersistStamp(i) \/ PersistInsert(i)
                   \/ PersistReturn(i) \/ PersistError(i))
    /\ WF_vars(GatherGet \/ GatherCall \/ GatherResults \/ GatherPut
                   \/ GatherRaise)
    /\ WF_vars(ConsumeGet \/ ConsumePrint \/ ConsumeQsize \/ ConsumeCount)

SpecFair == Init /\ [][Next]_vars /\ Fairness


\* ------------------------------------------------- one reading, any shape
\* Values a reading may hold for each field, the ends of every range and
\* their neighbours among them; Absent stands for a key the dict lacks.
Absent == [ty |-> "absent", v |-> 0]
AmbientTempValues ==
    {Absent, Float(2), Float(3), Float(25), Float(40), Float(41), Int_(25), Str_}
FanValues ==
    {Absent, Int_(99), Int_(100), Int_(2000), Int_(2001), Float(1500), Bool_(1),
     Str_}
CpuTempValues == {Absent, Float(4), Float(5), Float(50), Float(51), Int_(40)}
MachineIdValues == {"absent", "m1", "m2", "m9"}
LocationValues == {"absent", "rack7"}

\* The dict with the given values, the absent keys left out.
MakeReading(a, f, c, m, x) ==
    LET keys == (IF a = Absent THEN {} ELSE {"AmbientTemp"})
                \cup (IF f = Absent THEN {} ELSE {"Fan"})
                \cup (IF c = Absent THEN {} ELSE {"CpuTemp"})
                \cup (IF m = "absent" THEN {} ELSE {"MachineId"})
                \cup (IF x = "absent" THEN {} ELSE {"Location"})
    IN [k \in keys |->
           IF k = "AmbientTemp" THEN a
           ELSE IF k = "Fan" THEN f
           ELSE IF k = "CpuTemp" THEN c
           ELSE IF k = "MachineId" THEN m
           ELSE x]

\* The state after load_data has enqueued one reading of any shape.
InitStages ==
    /\ \E a \in AmbientTempValues, f \in FanValues, c \in CpuTempValues,
          m \in MachineIdValues, x \in LocationValues :
           /\ orig = <<MakeReading(a, f, c, m, x)>>
           /\ reading = orig
    /\ queue = <<1>>
    /\ produced = 1
    /\ remote_q = <<>>
    /\ schema_q = <<>>
    /\ info_q = <<>>
    /\ insert_q = <<>>
    /\ task = <<[s \in Stages |-> "none"]>>
    /\ L = <<>>
    /\ gather_alive = TRUE
    /\ final = <<>>
    /\ count = 0
    /\ printed = <<>>
    /\ table \in InitialTables
    /\ table0 = Len(table)
    /\ budget = 0
    /\ invoked_at = <<0>>
    /\ client = "connected"
    /\ scatter_L = <<>>
    /\ scatter_pc = "get"
    /\ returned = <<>>
    /\ gather_pc = "get"
    /\ results = <<>>
    /\ qsizes = <<>>
    /\ item = 0
    /\ loop_pc = "get"
    /\ map_item = [s \in Stages |-> 0]
    /\ map_pc = [s \in Stages |-> "get"]

NextStages ==
    \/ ScatterGet
    \/ ScatterSend
    \/ ScatterReturn
    \/ ScatterPut
    \/ map_test_schema
    \/ map_add_machine_info
    \/ map_add_reading
    \/ \E i \in 1..produced : RunValidate(i)
    \/ \E i \in 1..produced : RunEnrich(i)
    \/ \E i \in 1..produced : PersistStart(i)
    \/ \E i \in 1..produced : PersistStamp(i)
    \/ \E i \in 1..produced : PersistInsert(i)
    \/ \E i \in 1..produced : PersistReturn(i)
    \/ \E i \in 1..produced : PersistError(i)
    \/ GatherGet
    \/ GatherCall
    \/ GatherResults
    \/ GatherPut
    \/ GatherRaise
    \/ ConsumeGet
    \/ ConsumePrint
    \/ ConsumeQsize
    \/ ConsumeCount

SpecStages == InitStages /\ [][NextStages]_vars

\* ------------------------------------------- the first result is ready
\* Scenario A after its three tasks and its add_reading, stamped at clock 0.
FirstResult ==
    SetItem(add_machine_info(test_schema(ReadingA).value).value,
            "processed_at", 0)

\* The first reading, scenario A, has been through the chain into an empty
\* table and the gather thread has put its result on final, before the
\* producer has woken from its sleep(1) and before the loop has taken the
\* result: a state every run of Spec with that first reading can reach.
FirstResultReady ==
    /\ queue = <<>>
    /\ produced = 1
    /\ orig = <<ReadingA>>
    /\ reading = <<FirstResult>>
    /\ remote_q = <<>>
    /\ schema_q = <<>>
    /\ info_q = <<>>
    /\ insert_q = <<>>
    /\ task = <<[s \in Stages |-> "finished"]>>
    /\ L = <<>>
    /\ gather_alive = TRUE
    /\ final = <<1>>
    /\ count = 0
    /\ printed = <<>>
    /\ table = <<FirstResult>>
    /\ table0 = 0
    /\ invoked_at = <<0>>
    /\ client = "connected"
    /\ scatter_L = <<>>
    /\ scatter_pc = "get"
    /\ returned = <<1>>
    /\ gather_pc = "get"
    /\ results = <<>>
    /\ qsizes = <<>>
    /\ item = 0
    /\ loop_pc = "get"
    /\ map_item = [s \in Stages |-> 0]
    /\ map_pc = [s \in Stages |-> "get"]

\* The notebook from that state on, the producer with MaxLate readings to
\* go before the model stops it.
InitLate == FirstResultReady /\ budget = MaxLate

\* Every step but the two of the connection, which has been made.
NextLate ==
    \/ load_data
    \/ ScatterGet
    \/ ScatterSend
    \/ ScatterReturn
    \/ ScatterPut
    \/ map_test_schema
    \/ map_add_machine_info
    \/ map_add_reading
    \/ \E i \in 1..produced : RunValidate(i)
    \/ \E i \in 1..produced : RunEnrich(i)
    \/ \E i \in 1..produced : PersistStart(i)
    \/ \E i \in 1..produced : PersistStamp(i)
    \/ \E i \in 1..produced : PersistInsert(i)
    \/ \E i \in 1..produced : PersistReturn(i)
    \/ \E i \in 1..produced : PersistError(i)
    \/ GatherGet
    \/ GatherCall
    \/ GatherResults
    \/ GatherPut
    \/ GatherRaise
    \/ ConsumeGet
    \/ ConsumePrint
    \/ ConsumeQsize
    \/ ConsumeCount

SpecLate == InitLate /\ [][NextLate]_vars /\ Fairness

\* ------------------------------------------------------------------ claims
\* The stage's task of reading i has run to its end, one way or the other.
Ran(i, s) == task[i][s] \in {"finished", "error"}

\* Every schema field of r is present, of its type and within its range.
WithinSchema(r) ==
    /\ {"AmbientTemp", "Fan", "CpuTemp"} \subseteq DOMAIN r
    /\ r["AmbientTemp"].ty = "float"
    /\ r["AmbientTemp"].v >= 3 /\ r["AmbientTemp"].v <= 40
    /\ r["Fan"].ty = "int"
    /\ r["Fan"].v >= 100 /\ r["Fan"].v <= 2000
    /\ r["CpuTemp"].ty = "float"
    /\ r["CpuTemp"].v >= 5 /\ r["CpuTemp"].v <= 50

\* Some schema field of r is missing, of another type or outside its range.
ViolatesSchema(r) ==
    \/ "AmbientTemp" \notin DOMAIN r
    \/ "Fan" \notin DOMAIN r
    \/ "CpuTemp" \notin DOMAIN r
    \/ r["AmbientTemp"].ty # "float"
    \/ r["AmbientTemp"].v < 3 \/ r["AmbientTemp"].v > 40
    \/ r["Fan"].ty # "int"
    \/ r["Fan"].v < 100 \/ r["Fan"].v > 2000
    \/ r["CpuTemp"].ty # "float"
    \/ r["CpuTemp"].v < 5 \/ r["CpuTemp"].v > 50

\* C2: a reading whose AmbientTemp, Fan and CpuTemp are all present, typed
\* float, integer, float and within [3,40], [100,2000], [5,50], the ends
\* included, leaves test_schema with warning = False.
C2_ValidReadingNoWarning ==
    \A i \in 1..produced :
        (Ran(i, "schema") /\ WithinSchema(orig[i]))
            => /\ task[i]["schema"] = "finished"
               /\ "warning" \in DOMAIN reading[i]
               /\ reading[i]["warning"] = FALSE

\* A reading with every field on an end of its range has been validated.
C2_Witness ==
    \E i \in 1..produced :
        /\ task[i]["schema"] = "finished"
        /\ WithinSchema(orig[i])
        /\ orig[i]["AmbientTemp"].v = 40
        /\ orig[i]["Fan"].v = 100
        /\ orig[i]["CpuTemp"].v = 50
        /\ reading[i]["warning"] = FALSE

\* C3: a reading with a schema field missing, wrong-typed or out of range
\* leaves test_schema with warning = True, and no test_schema task ever
\* ends in an error.
C3_InvalidReadingWarnsNeverRaises ==
    \A i \in 1..produced :
        /\ task[i]["schema"] # "error"
        /\ (Ran(i, "schema") /\ ViolatesSchema(orig[i]))
               => /\ "warning" \in DOMAIN reading[i]
                  /\ reading[i]["warning"] = TRUE

\* A reading that lacks Fan and has AmbientTemp above its range has been
\* validated.
C3_Witness ==
    \E i \in 1..produced :
        /\ task[i]["schema"] = "finished"
        /\ "Fan" \notin DOMAIN orig[i]
        /\ "AmbientTemp" \in DOMAIN orig[i]
        /\ orig[i]["AmbientTemp"] = Float(41)
        /\ reading[i]["warning"] = TRUE


\* The reading names a machine the directory holds.
KnownMachine(r) ==
    /\ "MachineId" \in DOMAIN r
    /\ r["MachineId"] \in DOMAIN generate_machine_db

\* C4: add_machine_info sets brand to the directory's value for the
\* reading's MachineId; for a MachineId the directory does not hold the task
\* ends in an error and the reading gets no brand.
C4_BrandFromDirectoryOrFailure ==
    \A i \in 1..produced :
        /\ (Ran(i, "info") /\ KnownMachine(orig[i]))
               => /\ task[i]["info"] = "finished"
                  /\ "brand" \in DOMAIN reading[i]
                  /\ reading[i]["brand"] = generate_machine_db[orig[i]["MachineId"]]
        /\ (Ran(i, "info") /\ ~KnownMachine(orig[i]))
               => /\ task[i]["info"] = "error"
                  /\ "brand" \notin DOMAIN reading[i]
        /\ ~Ran(i, "info") => "brand" \notin DOMAIN reading[i]

\* A validated reading of machine m9, which the directory does not hold,
\* has failed in add_machine_info and carries no brand.
C4_Witness ==
    \E i \in 1..produced :
        /\ "MachineId" \in DOMAIN orig[i]
        /\ orig[i]["MachineId"] = "m9"
        /\ task[i]["schema"] = "finished"
        /\ task[i]["info"] = "error"
        /\ "brand" \notin DOMAIN reading[i]

\* The readings whose add_reading has written its row.
Inserted == {i \in 1..produced : task[i]["insert"] \in {"inserted", "finished"}}

\* The readings add_reading has stamped and not failed on since.
Stamped ==
    {i \in 1..produced : task[i]["insert"] \in {"stamped", "inserted", "finished"}}

\* The readings whose add_reading has returned.
Persisted == {i \in 1..produced : task[i]["insert"] = "finished"}

\* Reading i is a row of the table.
InTable(i) == \E k \in 1..Len(table) : table[k] = reading[i]

\* The part of C5 the code keeps: every add_reading call that comes past
\* its insert has left the table with exactly one more row, its reading,
\* than its insert found, also while other add_reading calls are between
\* their lines, and nothing else writes to the table.
PersistAddsOneRow ==
    /\ [][\A i \in 1..produced :
              /\ (task[i]["insert"] = "stamped" /\ task'[i]["insert"] = "inserted")
                     => /\ Len(table') = Len(table) + 1
                        /\ table'[Len(table')] = reading[i]
                        /\ SubSeq(table', 1, Len(table)) = table
              /\ (task[i]["insert"] = "inserted" /\ task'[i]["insert"] = "finished")
                     => table' = table]_vars
    /\ [][table' # table
              => \E i \in 1..produced : /\ task[i]["insert"] = "stamped"
                                        /\ task'[i]["insert"] = "inserted"]_vars
    /\ [](Len(table) = table0 + Cardinality(Inserted))

\* C5 as claimed: every add_reading call that returns has left the table
\* with exactly one more row than its insert found, also while other
\* add_reading calls are between their lines, and its processed_at is no
\* earlier than the wall clock read at its invocation.
C5_PersistAddsOneRowStampedAfterInvocation ==
    /\ PersistAddsOneRow
    /\ [](\A i \in Stamped :
              /\ "processed_at" \in DOMAIN reading[i]
              /\ reading[i]["processed_at"] >= invoked_at[i])

\* An add_reading call has returned with a stamp earlier than the wall
\* clock read at its invocation, its row written.
StampedBeforeInvocation ==
    \E i \in Persisted :
        /\ reading[i]["processed_at"] < invoked_at[i]
        /\ InTable(i)

\* Nothing is left to do for reading i: it has left the queues before
\* insert_q, neither the scatter thread nor a map thread holds it, and
\* none of its tasks is running or may run.
AtRest(i) ==
    /\ \A q \in {queue, scatter_L, remote_q, schema_q, info_q} :
           i \notin Range_(q)
    /\ \A s \in Stages : map_item[s] # i
    /\ \A s \in Stages : ~Ready(i, s)
    /\ task[i]["insert"] \notin {"running", "stamped", "inserted"}

\* C6: a reading that violates the schema is not dropped: test_schema does
\* not fail on it and gives it warning = True, and once nothing is left to
\* do for it, if its machine is in the directory and its add_reading did
\* not fail, it is a row of the table with warning = True.
C6_InvalidReadingStillPersisted ==
    \A i \in 1..produced :
        ViolatesSchema(orig[i]) =>
            /\ task[i]["schema"] # "error"
            /\ Ran(i, "schema") => reading[i]["warning"] = TRUE
            /\ (AtRest(i) /\ KnownMachine(orig[i]) /\ task[i]["insert"] # "error")
                   => /\ task[i]["insert"] = "finished"
                      /\ InTable(i)
                      /\ reading[i]["warning"] = TRUE

\* Scenario B has become a row with warning = True.
C6_Witness ==
    \E i \in 1..produced :
        /\ orig[i] = ReadingB
        /\ AtRest(i)
        /\ \E k \in 1..Len(table) :
               /\ table[k] = reading[i]
               /\ table[k]["warning"] = TRUE
               /\ table[k]["AmbientTemp"] = Float(50)

\* The task of stage s of reading i has started on a worker.
Started(i, s) ==
    task[i][s] \in {"running", "stamped", "inserted", "finished", "error"}

\* C7: add_machine_info of a reading starts only after its test_schema has
\* completed, and add_reading of a reading only after its add_machine_info
\* has completed.
C7_StagesInOrder ==
    \A i \in 1..produced :
        /\ Started(i, "info") => task[i]["schema"] = "finished"
        /\ Started(i, "insert") => task[i]["info"] = "finished"

\* Reading 2 is already being persisted while reading 1, submitted before
\* it, has been validated and waits for its add_machine_info.
C7_Witness ==
    /\ produced >= 2
    /\ task[2]["insert"] = "running"
    /\ task[1]["schema"] = "finished"
    /\ task[1]["info"] = "waiting"


\* The ids of the results collect has yielded, in the order it yielded
\* them: those the loop has printed, the one it has taken and not yet
\* printed, then those waiting in final.
Yielded ==
    printed \o (IF loop_pc = "print" THEN <<item>> ELSE <<>>) \o final

\* No task of any reading has failed.
NoTaskFailed == \A i \in 1..produced : \A s \in Stages : task[i][s] # "error"

\* Every reading enqueued so far has been through its three tasks and the
\* gather thread has passed on every batch it took.
Drained ==
    /\ \A i \in 1..produced : \A s \in Stages : task[i][s] = "finished"
    /\ insert_q = <<>>
    /\ \A s \in Stages : map_item[s] = 0
    /\ L = <<>>
    /\ results = <<>>

\* C8: when no task fails, the N readings fed through the chain give
\* exactly N results at collect, one per reading, and the table has exactly
\* N more rows than at the start.
C8_NReadingsNResultsNRows ==
    (Drained /\ NoTaskFailed) =>
        /\ Len(Yielded) = produced
        /\ Range_(Yielded) = 1..produced
        /\ Len(table) = table0 + produced
        /\ \A i \in 1..produced : InTable(i)

\* MaxItems readings, scenario A and scenario B among them, have been
\* through the chain into a table that was not empty at the start.
C8_Witness ==
    /\ produced = MaxItems
    /\ produced >= 2
    /\ Drained
    /\ NoTaskFailed
    /\ table0 >= 1
    /\ \E i, j \in 1..produced : orig[i] = ReadingA /\ orig[j] = ReadingB

\* The fields test_schema and add_machine_info have added to reading i.
Added(i) ==
    (IF task[i]["schema"] = "finished" THEN {"warning"} ELSE {})
    \cup (IF task[i]["info"] = "finished" THEN {"brand"} ELSE {})

\* C9: a reading that collect yields carries warning, brand and
\* processed_at besides its original fields, and every original field, the
\* ones outside the schema too, has the value it was enqueued with; at
\* every point test_schema has added only warning, add_machine_info only
\* brand and add_reading only processed_at, from its stamp on and also
\* when its insert fails afterwards.  (Readings are enqueued without fields
\* named warning, brand or processed_at.)
C9_ResultCarriesOriginalAndAddedFields ==
    \A i \in 1..produced :
        /\ DOMAIN reading[i] \ {"processed_at"} = DOMAIN orig[i] \cup Added(i)
        /\ "processed_at" \in DOMAIN reading[i] => Started(i, "insert")
        /\ i \in Stamped => "processed_at" \in DOMAIN reading[i]
        /\ task[i]["insert"] = "running" => "processed_at" \notin DOMAIN reading[i]
        /\ \A f \in DOMAIN orig[i] : reading[i][f] = orig[i][f]
        /\ i \in Range_(Yielded)
               => {"warning", "brand", "processed_at"} \subseteq DOMAIN reading[i]

\* A reading with a wrong-typed Fan and an extra field has been printed.
C9_Witness ==
    \E k \in 1..Len(printed) :
        LET i == printed[k] IN
            /\ "Location" \in DOMAIN orig[i]
            /\ "Fan" \in DOMAIN orig[i]
            /\ orig[i]["Fan"] = Float(1500)
            /\ reading[i]["Location"] = "rack7"
            /\ reading[i]["warning"] = TRUE
            /\ reading[i]["brand"] = "Juniper"

\* Position of reading i among the results yielded, 0 when it is not there.
Pos(i) ==
    IF i \in Range_(Yielded)
    THEN CHOOSE k \in 1..Len(Yielded) : Yielded[k] = i
    ELSE 0

\* Reading j, submitted after reading i, finished its add_reading first:
\* its call returned before the call of reading i did.
FinishedFirst(j, i) ==
    /\ i < j
    /\ \E h, k \in 1..Len(returned) :
           h < k /\ returned[h] = j /\ returned[k] = i

\* C10 as claimed: collect yields in completion order, so when the
\* later-submitted reading finishes add_reading first, the loop does not
\* receive the earlier-submitted reading's result before it.
C10_CompletionOrder ==
    \A i, j \in 1..produced :
        (FinishedFirst(j, i) /\ \E k \in 1..Len(printed) : printed[k] = i)
            => \E k \in 1..Len(printed) :
                   /\ printed[k] = j
                   /\ \A h \in 1..k : printed[h] # i

\* C10 as the code has it: the gather thread puts the results of a batch on
\* final in the order of the batch, so collect yields results in submission
\* order, also when a later-submitted reading finished add_reading first.
C10_SubmissionOrder ==
    \A h, k \in 1..Len(Yielded) : h < k => Yielded[h] < Yielded[k]

\* Reading 2 finished add_reading before reading 1 and the loop has
\* received reading 1's result, reading 2's still waiting in final.
C10_Witness ==
    /\ produced >= 2
    /\ FinishedFirst(2, 1)
    /\ Len(printed) >= 1
    /\ printed[1] = 1
    /\ 2 \in Range_(Yielded)

\* The pipeline has come to rest on what was enqueued so far: nothing is
\* left to do for any reading and the gather thread, if alive, is idle with
\* nothing queued.
Quiet ==
    /\ \A i \in 1..produced : AtRest(i)
    /\ scatter_pc = "get"
    /\ \A s \in Stages : map_pc[s] = "get"
    /\ gather_alive => (L = <<>> /\ insert_q = <<>> /\ results = <<>>)

\* The three tasks of reading i have succeeded.
ChainSucceeded(i) == \A s \in Stages : task[i][s] = "finished"

\* C1 as claimed: a failing task fails only its own reading's chain: once
\* the pipeline has come to rest, every reading whose own three tasks
\* succeeded is a row of the table and has been yielded by collect,
\* whatever other readings failed before or after it.
C1_FaultIsolation ==
    Quiet =>
        \A i \in 1..produced :
            ChainSucceeded(i) => (InTable(i) /\ i \in Range_(Yielded))


\* The chain of reading i has failed: one of its tasks raised, so the
\* future of its add_reading task erred.
ChainFailed(i) == FutureStatus(i, "insert") = "error"

\* C11 as claimed: a failed item is not swallowed: once the pipeline has
\* come to rest, every reading whose add_machine_info or add_reading task
\* failed has surfaced at collect, as a result of its own put on final for
\* the loop to report, and the readings that succeeded have been yielded
\* alongside it.
C11_FailureSurfacesAtCollect ==
    Quiet =>
        \A i \in 1..produced :
            ChainFailed(i) =>
                /\ i \in Range_(Yielded)
                /\ \A j \in 1..produced : ChainSucceeded(j) => j \in Range_(Yielded)


\* C12: the loop prints at most SampleSize results and then stops: count
\* is the number of results printed, but for the one of the pass the loop
\* is in, and at count = SampleSize the loop takes and prints nothing more;
\* when every thread keeps running and no task fails it does print
\* SampleSize results and ends (there is no loop without a connection).
C12_LoopPrintsNThenStops ==
    /\ [](/\ count <= SampleSize
          /\ Len(printed) <= SampleSize
          /\ Len(printed) = count + (IF loop_pc \in {"qsize", "count"} THEN 1 ELSE 0)
          /\ Len(qsizes) = count + (IF loop_pc = "count" THEN 1 ELSE 0))
    /\ [][count = SampleSize
              => /\ count' = count /\ printed' = printed /\ qsizes' = qsizes
                 /\ final' = final \/ Len(final') > Len(final)]_vars
    /\ <>(count = SampleSize \/ ~NoTaskFailed \/ client = "failed")

\* The loop has ended with a further result waiting in final.
C12_Witness ==
    /\ count = SampleSize
    /\ Len(printed) = SampleSize
    /\ final # <<>>
    /\ NoTaskFailed


\* The loop has exited.
LoopExited == count = SampleSize

\* Reading i waits in the producer-side queue.
InQueue(i) == i \in Range_(queue)

C14_ProducerNeverBlocks ==
    /\ [](produced < MaxItems => ENABLED load_data)
    /\ <>(produced = MaxItems)

\* The loop has ended, the table has grown, and the producer can still put
\* the next reading.
C14_Witness ==
    /\ count = SampleSize
    /\ Len(table) > table0
    /\ produced < MaxItems
    /\ ENABLED load_data

\* Readings i and j are the same logical reading: every field but
\* processed_at agrees.
SameLogicalReading(i, j) ==
    /\ DOMAIN reading[i] = DOMAIN reading[j]
    /\ \A f \in DOMAIN reading[i] \ {"processed_at"} :
           reading[i][f] = reading[j][f]

\* C15: a step never removes or replaces a row, it adds at most one at the
\* end; every add_reading that has come past its insert has a row of its
\* own, so the same logical reading persisted twice is two rows.
C15_AppendOnlyNotIdempotent ==
    /\ [][/\ Len(table') \in {Len(table), Len(table) + 1}
          /\ SubSeq(table', 1, Len(table)) = table]_vars
    /\ [](Len(table) = table0 + Cardinality(Inserted))
    /\ [](\A i, j \in Inserted :
              i # j =>
                  \E k, l \in (table0 + 1)..Len(table) :
                      k # l /\ table[k] = reading[i] /\ table[l] = reading[j])

\* The same logical reading persisted twice, at two different times; the
\* row stamped later was written first.
C15_Witness ==
    \E i, j \in Persisted :
        /\ i # j
        /\ SameLogicalReading(i, j)
        /\ reading[i]["processed_at"] > reading[j]["processed_at"]
        /\ \E k, l \in 1..Len(table) :
               k < l /\ table[k] = reading[i] /\ table[l] = reading[j]


\* C16: when Client('127.0.0.1:8786') fails there is no part of a pipeline:
\* the producer is not running, no reading has been enqueued, no task has
\* been submitted and no row has been written.
C16_NoPartialPipelineOnFailedConnect ==
    client = "failed" =>
        /\ ~ENABLED load_data
        /\ produced = 0
        /\ queue = <<>>
        /\ \A i \in 1..produced : \A s \in Stages : task[i][s] = "none"
        /\ Len(table) = table0

\* The part of C16 the code does keep: without a connection no task is
\* submitted and no row is written.
NoTaskNoRowWithoutConnection ==
    client # "connected" =>
        /\ \A i \in 1..produced : \A s \in Stages : task[i][s] = "none"
        /\ Len(table) = table0
        /\ remote_q = <<>>

\* The reading r with its fields outside the schema replaced: MachineId m
\* and Location x, "absent" for a field left out.
Variant(r, m, x) ==
    MakeReading(IF "AmbientTemp" \in DOMAIN r THEN r["AmbientTemp"] ELSE Absent,
                IF "Fan" \in DOMAIN r THEN r["Fan"] ELSE Absent,
                IF "CpuTemp" \in DOMAIN r THEN r["CpuTemp"] ELSE Absent,
                m, x)

\* C17: the warning test_schema gave a reading is the warning it gives to
\* every reading with the same AmbientTemp, Fan and CpuTemp, whatever the
\* MachineId (known, unknown or missing) and with or without a further field.
C17_WarningDependsOnSchemaFieldsOnly ==
    \A i \in 1..produced :
        task[i]["schema"] = "finished" =>
            \A m \in MachineIdValues, x \in LocationValues :
                /\ ~test_schema(Variant(orig[i], m, x)).raised
                /\ test_schema(Variant(orig[i], m, x)).value["warning"]
                       = reading[i]["warning"]

\* A reading within the schema, with a field the schema does not name and
\* a machine the directory does not hold, was validated without a warning.
C17_Witness ==
    \E i \in 1..produced :
        /\ task[i]["schema"] = "finished"
        /\ WithinSchema(orig[i])
        /\ "Location" \in DOMAIN orig[i]
        /\ "MachineId" \in DOMAIN orig[i] /\ orig[i]["MachineId"] = "m9"
        /\ reading[i]["warning"] = FALSE
        /\ test_schema(Variant(orig[i], "absent", "absent")).value["warning"]
               = FALSE


\* The readings the loop has printed.
Reported == Range_(printed)

\* C18: every reading the loop has taken or printed has its add_reading completed
\* and its row in the table, so the table holds at least as many rows as
\* results were printed.
C18_PersistedBeforeReported ==
    /\ \A i \in Reported \cup (IF item = 0 THEN {} ELSE {item}) :
           /\ task[i]["insert"] = "finished"
           /\ \E k \in (table0 + 1)..Len(table) : table[k] = reading[i]
    /\ Len(table) >= table0 + Len(printed)
    /\ Len(printed) = Cardinality(Reported)

\* A reading has been printed while the add_reading of another one is
\* still running.
C18_Witness ==
    /\ Len(printed) >= 1
    /\ InTable(printed[1])
    /\ \E j \in 1..produced : j \notin Reported /\ task[j]["insert"] = "running"

\* The rows written since Init.  The rows the table held before are the
\* work of earlier runs and earlier directories.
NewRows == (table0 + 1)..Len(table)

\* C19: a reading whose add_machine_info failed (no MachineId, or one the
\* directory does not hold) never has its add_reading run and never is a
\* row; every row written carries a warning and the brand the directory
\* gives for the row's MachineId.
C19_NoRowForFailedChain ==
    /\ \A i \in 1..produced :
           /\ (Ran(i, "info") /\ ~KnownMachine(orig[i]))
                  => task[i]["info"] = "error"
           /\ task[i]["info"] = "error" =>
                  /\ ~Started(i, "insert")
                  /\ \A k \in NewRows : table[k] # reading[i]
    /\ \A k \in NewRows :
           /\ {"warning", "brand", "MachineId"} \subseteq DOMAIN table[k]
           /\ table[k]["warning"] \in BOOLEAN
           /\ table[k]["MachineId"] \in DOMAIN generate_machine_db
           /\ table[k]["brand"] = generate_machine_db[table[k]["MachineId"]]

\* A reading without a MachineId has failed in add_machine_info, its
\* add_reading was submitted, and the gather thread has died on it.
C19_Witness ==
    \E i \in 1..produced :
        /\ "MachineId" \notin DOMAIN orig[i]
        /\ task[i]["info"] = "error"
        /\ task[i]["insert"] = "waiting"
        /\ ~gather_alive
        /\ Len(table) = table0

\* The places a reading's future or result can be, in the pipeline's order.
Pipeline ==
    LET Held(s) == IF map_item[s] = 0 THEN <<>> ELSE <<map_item[s]>> IN
        queue \o scatter_L \o remote_q \o Held("schema") \o schema_q
            \o Held("info") \o info_q \o Held("insert") \o insert_q \o L
            \o results \o Yielded

\* How far a task has come.
Progress(st) ==
    IF st = "none" THEN 0
    ELSE IF st = "waiting" THEN 1
    ELSE IF st = "running" THEN 2
    ELSE IF st = "stamped" THEN 3
    ELSE IF st = "inserted" THEN 4
    ELSE 5

\* C20: a reading is in one place of the pipeline at most, each of its
\* tasks is submitted once and run once (a task never goes back, a task
\* that has ended stays as it ended), and the rows written and the results
\* yielded are each at most the readings enqueued.
C20_AtMostOncePerReading ==
    /\ [](\A k, l \in 1..Len(Pipeline) : Pipeline[k] = Pipeline[l] => k = l)
    /\ [](Len(table) - table0 <= produced)
    /\ [](Len(Yielded) <= produced)
    /\ [](Len(table) - table0 <= Cardinality(Inserted))
    /\ [][\A i \in 1..produced : \A s \in Stages :
              /\ Progress(task'[i][s]) >= Progress(task[i][s])
              /\ Progress(task[i][s]) = 5 => task'[i][s] = task[i][s]]_vars

\* One reading has been through the pipeline and printed, the next one is
\* still in the queue.
C20_Witness ==
    /\ produced = 2
    /\ 1 \in Reported
    /\ queue = <<2>>
    /\ Len(table) = table0 + 1
    /\ Len(Yielded) = 1

====
